---------------------------- MODULE Spec2Model ----------------------------
(***************************************************************************)
(* Model of hubcaps' repositories module (src/src/repositories/mod.rs):    *)
(* the option enums and their Display strings, the three list-options      *)
(* builders with their HashMap of query parameters, build(), serialize(),  *)
(* and the accessors that assemble a URI and call the shared client.       *)
(*                                                                         *)
(* A Rust String is a sequence of one-character strings, so that percent-  *)
(* encoding, joining and URL parsing are computed character by character.  *)
(* Option<T> is a sequence of length at most one.                          *)
(***************************************************************************)
EXTENDS Integers, Sequences, FiniteSets, TLC

\* Bounds of the model.
MaxAffLen  == 2   \* longest Vec<Affiliation> passed to affiliation()
MaxCalls   == 2   \* setter calls made on one builder
MaxOptions == 2   \* Options values built from one builder

None    == << >>
Some(x) == << x >>

---------------------------------------------------------------------------
\* Option enums and their Display implementations.

Visibility  == {"All", "Public", "Private"}
Sort        == {"Created", "Updated", "Pushed", "FullName"}
Affiliation == {"Owner", "Collaborator", "OrganizationMember"}
Type        == {"All", "Owner", "Public", "Private", "Member"}
OrgRepoType == {"All", "Public", "Private", "Forks", "Sources", "Member"}
SortDirection == {"Asc", "Desc"}

\* Visibility::Private given the string of Visibility::Public.
Visibility_to_string_dup(v) ==
    CASE v = "All"     -> <<"a", "l", "l">>
      [] v = "Public"  -> <<"p", "u", "b", "l", "i", "c">>
      [] v = "Private" -> <<"p", "u", "b", "l", "i", "c">>

Visibility_to_string(v) ==
    CASE v = "All"     -> <<"a", "l", "l">>
      [] v = "Public"  -> <<"p", "u", "b", "l", "i", "c">>
      [] v = "Private" -> <<"p", "r", "i", "v", "a", "t", "e">>

Sort_to_string(s) ==
    CASE s = "Created"  -> <<"c", "r", "e", "a", "t", "e", "d">>
      [] s = "Updated"  -> <<"u", "p", "d", "a", "t", "e", "d">>
      [] s = "Pushed"   -> <<"p", "u", "s", "h", "e", "d">>
      [] s = "FullName" -> <<"f", "u", "l", "l", "_", "n", "a", "m", "e">>

Affiliation_to_string(a) ==
    CASE a = "Owner"              -> <<"o", "w", "n", "e", "r">>
      [] a = "Collaborator"       -> <<"c", "o", "l", "l", "a", "b", "o", "r", "a", "t", "o", "r">>
      [] a = "OrganizationMember" -> <<"o", "r", "g", "a", "n", "i", "z", "a", "t", "i", "o", "n", "_", "m", "e", "m", "b", "e", "r">>

Type_to_string(t) ==
    CASE t = "All"     -> <<"a", "l", "l">>
      [] t = "Owner"   -> <<"o", "w", "n", "e", "r">>
      [] t = "Public"  -> <<"p", "u", "b", "l", "i", "c">>
      [] t = "Private" -> <<"p", "r", "i", "v", "a", "t", "e">>
      [] t = "Member"  -> <<"m", "e", "m", "b", "e", "r">>

OrgRepoType_to_string(t) ==
    CASE t = "All"     -> <<"a", "l", "l">>
      [] t = "Public"  -> <<"p", "u", "b", "l", "i", "c">>
      [] t = "Private" -> <<"p", "r", "i", "v", "a", "t", "e">>
      [] t = "Forks"   -> <<"f", "o", "r", "k", "s">>
      [] t = "Sources" -> <<"s", "o", "u", "r", "c", "e", "s">>
      [] t = "Member"  -> <<"m", "e", "m", "b", "e", "r">>

\* SortDirection lives in the crate root; its Display gives "asc" / "desc".
SortDirection_to_string(d) ==
    CASE d = "Asc"  -> <<"a", "s", "c">>
      [] d = "Desc" -> <<"d", "e", "s", "c">>

---------------------------------------------------------------------------
\* Strings.

\* [String].join(sep): the first element, then sep and each further element.
RECURSIVE JoinFrom(_, _, _, _)
JoinFrom(parts, sep, i, acc) ==
    IF i > Len(parts) THEN acc
    ELSE JoinFrom(parts, sep, i + 1, acc \o sep \o parts[i])

Join(parts, sep) ==
    IF Len(parts) = 0 THEN << >>
    ELSE JoinFrom(parts, sep, 2, parts[1])

\* Bytes form_urlencoded::byte_serialize leaves as they are.
Unreserved ==
    { "a", "b", "c", "d", "e", "f", "g", "h", "i", "j", "k", "l", "m",
      "n", "o", "p", "q", "r", "s", "t", "u", "v", "w", "x", "y", "z",
      "A", "B", "C", "D", "E", "F", "G", "H", "I", "J", "K", "L", "M",
      "N", "O", "P", "Q", "R", "S", "T", "U", "V", "W", "X", "Y", "Z",
      "0", "1", "2", "3", "4", "5", "6", "7", "8", "9",
      "*", "-", ".", "_" }

\* The other ASCII characters that occur in the model, with their byte in hex.
HexOf ==
    [ c \in { ",", "&", "=", "?", "/", ":", "%", "+", "#" } |->
        CASE c = "," -> <<"2", "C">>
          [] c = "&" -> <<"2", "6">>
          [] c = "=" -> <<"3", "D">>
          [] c = "?" -> <<"3", "F">>
          [] c = "/" -> <<"2", "F">>
          [] c = ":" -> <<"3", "A">>
          [] c = "%" -> <<"2", "5">>
          [] c = "+" -> <<"2", "B">>
          [] c = "#" -> <<"2", "3">> ]

\* form_urlencoded::byte_serialize, one byte: unreserved bytes unchanged,
\* space as "+", every other byte as "%XX".
ByteSerializeChar(c) ==
    IF c \in Unreserved THEN << c >>
    ELSE IF c = " " THEN << "+" >>
    ELSE << "%" >> \o HexOf[c]

RECURSIVE ByteSerialize(_)
ByteSerialize(s) ==
    IF s = << >> THEN << >>
    ELSE ByteSerializeChar(Head(s)) \o ByteSerialize(Tail(s))

\* append_pair that never writes the "&" between pairs.
AppendPair_noSeparator(target, k, v) ==
    target \o ByteSerialize(k) \o << "=" >> \o ByteSerialize(v)

\* Serializer::append_pair: "&" unless the target is still empty, then
\* key "=" value, both byte-serialized.
AppendPair(target, k, v) ==
    (IF Len(target) > 0 THEN target \o << "&" >> ELSE target)
        \o ByteSerialize(k) \o << "=" >> \o ByteSerialize(v)

\* Serializer::extend_pairs over the pairs in the order the map yields them.
RECURSIVE ExtendPairs(_, _)
ExtendPairs(target, pairs) ==
    IF pairs = << >> THEN target
    ELSE ExtendPairs(AppendPair(target, Head(pairs)[1], Head(pairs)[2]), Tail(pairs))

---------------------------------------------------------------------------
\* HashMap<&'static str, String>: a set of <<key, value>> pairs.

K_visibility  == <<"v", "i", "s", "i", "b", "i", "l", "i", "t", "y">>
K_affiliation == <<"a", "f", "f", "i", "l", "i", "a", "t", "i", "o", "n">>
K_type        == <<"t", "y", "p", "e">>
K_sort        == <<"s", "o", "r", "t">>
K_direction   == <<"d", "i", "r", "e", "c", "t", "i", "o", "n">>

HashMap_new == { }

HashMap_keys(m) == { p[1] : p \in m }

HashMap_get(m, k) ==
    IF \E p \in m : p[1] = k
    THEN Some((CHOOSE p \in m : p[1] = k)[2])
    ELSE None

\* insert written as entry(k).or_insert(v): an entry under k is kept.
HashMap_insert_keep(m, k, v) ==
    IF \E p \in m : p[1] = k THEN m ELSE m \cup { << k, v >> }

\* insert that adds the pair beside an entry already under k.
HashMap_insert_multi(m, k, v) == m \cup { << k, v >> }

\* insert(k, v): the entry under k, if any, is replaced.
HashMap_insert(m, k, v) == { p \in m : p[1] # k } \cup { << k, v >> }

\* The orders in which iterating the map may yield its entries.
HashMap_iter(m) ==
    { s \in [1 .. Cardinality(m) -> m] :
        \A i, j \in DOMAIN s : i # j => s[i] # s[j] }

\* serialize without the is_empty() test.
Serialize_noEmptyTest(params, order) == Some(ExtendPairs(<< >>, order))

\* RepoListOptions / UserRepoListOptions / OrganizationRepoListOptions
\* ::serialize, for the iteration order `order` of params.
Serialize(params, order) ==
    IF params = { } THEN None
    ELSE Some(ExtendPairs(<< >>, order))

---------------------------------------------------------------------------
\* RepoOptions / RepoOptionsBuilder: a struct of the required name and ten
\* optional fields.

RepoNames == { <<"h", "u", "b", "c", "a", "p", "s">> }
Texts     == { <<"a">>, <<"b", " ", "c">> }
TeamIds   == { 1, 2 }

RepoOptionsBuilder_new(name) ==
    [ name |-> name, description |-> None, homepage |-> None,
      private |-> None, has_issues |-> None, has_wiki |-> None,
      has_downloads |-> None, team_id |-> None, auto_init |-> None,
      gitignore_template |-> None, license_template |-> None ]

RepoOptions_new(name, description, homepage, private, has_issues, has_wiki, has_downloads, team_id, auto_init, gitignore_template, license_template) ==
    [ name |-> name, description |-> description, homepage |-> homepage,
      private |-> private, has_issues |-> has_issues, has_wiki |-> has_wiki,
      has_downloads |-> has_downloads, team_id |-> team_id,
      auto_init |-> auto_init, gitignore_template |-> gitignore_template,
      license_template |-> license_template ]

\* serde_json's rendering of a string (the model's texts need no escapes),
\* a bool and an i32 (the model's team ids are single digits).
JsonString(s) == << "\"" >> \o s \o << "\"" >>
JsonBool(b)   == IF b THEN <<"t", "r", "u", "e">> ELSE <<"f", "a", "l", "s", "e">>
JsonInt(n)    == CASE n = 1 -> <<"1">> [] n = 2 -> <<"2">>

\* A field without skip_serializing_if: None is written as null.
JsonField_null(name, opt, value) ==
    IF opt = None THEN << JsonString(name) \o << ":" >> \o <<"n", "u", "l", "l">> >>
    ELSE << JsonString(name) \o << ":" >> \o value >>

JsonField(name, opt, value) ==
    IF opt = None THEN << >>
    ELSE << JsonString(name) \o << ":" >> \o value >>

\* #[derive(Serialize)] on RepoOptions: the fields in declaration order,
\* each optional one skipped when it is None.
RepoOptions_to_json(ro) ==
    LET fields ==
            << JsonString(<<"n", "a", "m", "e">>) \o << ":" >> \o JsonString(ro.name) >>
            \o JsonField(<<"d", "e", "s", "c", "r", "i", "p", "t", "i", "o", "n">>, ro.description,
                         IF ro.description = None THEN << >> ELSE JsonString(ro.description[1]))
            \o JsonField(<<"h", "o", "m", "e", "p", "a", "g", "e">>, ro.homepage,
                         IF ro.homepage = None THEN << >> ELSE JsonString(ro.homepage[1]))
            \o JsonField(<<"p", "r", "i", "v", "a", "t", "e">>, ro.private,
                         IF ro.private = None THEN << >> ELSE JsonBool(ro.private[1]))
            \o JsonField(<<"h", "a", "s", "_", "i", "s", "s", "u", "e", "s">>, ro.has_issues,
                         IF ro.has_issues = None THEN << >> ELSE JsonBool(ro.has_issues[1]))
            \o JsonField(<<"h", "a", "s", "_", "w", "i", "k", "i">>, ro.has_wiki,
                         IF ro.has_wiki = None THEN << >> ELSE JsonBool(ro.has_wiki[1]))
            \o JsonField(<<"h", "a", "s", "_", "d", "o", "w", "n", "l", "o", "a", "d", "s">>, ro.has_downloads,
                         IF ro.has_downloads = None THEN << >> ELSE JsonBool(ro.has_downloads[1]))
            \o JsonField(<<"t", "e", "a", "m", "_", "i", "d">>, ro.team_id,
                         IF ro.team_id = None THEN << >> ELSE JsonInt(ro.team_id[1]))
            \o JsonField(<<"a", "u", "t", "o", "_", "i", "n", "i", "t">>, ro.auto_init,
                         IF ro.auto_init = None THEN << >> ELSE JsonBool(ro.auto_init[1]))
            \o JsonField(<<"g", "i", "t", "i", "g", "n", "o", "r", "e", "_", "t", "e", "m", "p", "l", "a", "t", "e">>, ro.gitignore_template,
                         IF ro.gitignore_template = None THEN << >>
                         ELSE JsonString(ro.gitignore_template[1]))
            \o JsonField(<<"l", "i", "c", "e", "n", "s", "e", "_", "t", "e", "m", "p", "l", "a", "t", "e">>, ro.license_template,
                         IF ro.license_template = None THEN << >>
                         ELSE JsonString(ro.license_template[1]))
    IN  << "{" >> \o Join(fields, << "," >>) \o << "}" >>

---------------------------------------------------------------------------
\* Url::parse and Url::path, for the URLs a Repo record may carry.

Alpha == { "a", "b", "c", "d", "e", "f", "g", "h", "i", "j", "k", "l", "m",
           "n", "o", "p", "q", "r", "s", "t", "u", "v", "w", "x", "y", "z" }

\* Index of the first character of s, from i on, that is in stops; Len(s) + 1
\* when there is none.
RECURSIVE FindFrom(_, _, _)
FindFrom(s, i, stops) ==
    IF i > Len(s) THEN Len(s) + 1
    ELSE IF s[i] \in stops THEN i
    ELSE FindFrom(s, i + 1, stops)

\* Url::parse without a base: the input must open with a scheme (a letter,
\* then letters, digits, "+", "-", ".") and ":"; an http(s) URL must name a
\* host after "//". The result is Some(path) or None (a ParseError).
Url_parse_path(s) ==
    LET colon  == FindFrom(s, 1, { ":" })
        scheme == SubSeq(s, 1, colon - 1)
    IN  IF \/ colon > Len(s)
           \/ scheme = << >>
           \/ scheme[1] \notin Alpha
           \/ \E i \in DOMAIN scheme :
                scheme[i] \notin (Unreserved \ { "*", "_" }) \cup { "+" }
        THEN None                                   \* RelativeUrlWithoutBase
        ELSE
            LET rest  == SubSeq(s, colon + 1, Len(s))
                slash == IF Len(rest) >= 2 /\ rest[1] = "/" /\ rest[2] = "/"
                         THEN 3 ELSE 1
                hend  == FindFrom(rest, slash, { "/", "?", "#" })
                pend  == FindFrom(rest, hend, { "?", "#" })
                path  == SubSeq(rest, hend, pend - 1)
            IN  IF hend = slash THEN None           \* EmptyHost
                ELSE Some(IF path = << >> THEN << "/" >> ELSE path)

LanguagesUrls ==
    { <<"h", "t", "t", "p", "s", ":", "/", "/", "a", "p", "i", ".", "g", "h", "/", "r", "e", "p", "o", "s", "/", "o", "/", "r", "/", "l", "a", "n", "g", "u", "a", "g", "e", "s">>,
      <<"h", "t", "t", "p", "s", ":", "/", "/", "a", "p", "i", ".", "g", "h", "/", "r", "e", "p", "o", "s", "/", "o", "/", "r", "/", "l", "a", "n", "g", "u", "a", "g", "e", "s", "?", "p", "a", "g", "e", "=", "2">>,
      <<"/", "r", "e", "p", "o", "s", "/", "o", "/", "r", "/", "l", "a", "n", "g", "u", "a", "g", "e", "s">>,
      << >> }

---------------------------------------------------------------------------
\* The shared client (crate root): what get and post may give back for a
\* request, the decoded value or a transport / decode error.

ClientResults == { << "Ok" >>, << "Err", "transport" >>, << "Err", "decode" >> }

Owners == { <<"o", "c", "t", "o", "c", "a", "t">>, <<"r", "u", "s", "t", "-", "l", "a", "n", "g">> }

Repositories_path(more)                == <<"/", "u", "s", "e", "r", "/", "r", "e", "p", "o", "s">> \o more
UserRepositories_path(owner, more)     == <<"/", "u", "s", "e", "r", "s", "/">> \o owner \o <<"/", "r", "e", "p", "o", "s">> \o more
OrganizationRepositories_path(org, more) == <<"/", "o", "r", "g", "s", "/">> \o org \o <<"/", "r", "e", "p", "o", "s">> \o more

---------------------------------------------------------------------------
\* State.

VARIABLES
    kind,       \* which object the caller works with: "repo", "user", "org"
                \* (the list-options builders), "create" (RepoOptionsBuilder)
                \* or "record" (a Repo record)
    heap,       \* the owned values: heap[1] is the builder's, every later one
                \* belongs to an Options value that build() produced
    opts,       \* the Options values built so far, each the index of its value
    ncalls,     \* setter calls made on the builder
    last,       \* the most recent call: its name, the key it wrote, its
                \* argument, and the entry HashMap::insert replaced
    ret,        \* what the most recent call returned
    reqs,       \* the requests that call issued through the shared client
    clientRet   \* what the shared client returned to that call, if called

vars == << kind, heap, opts, ncalls, last, ret, reqs, clientRet >>

ListKinds == { "repo", "user", "org" }

Call(op, key, arg, replaced) ==
    [ op |-> op, key |-> key, arg |-> arg, replaced |-> replaced ]

\* The Vec<Affiliation> arguments tried: every vector of up to MaxAffLen
\* variants (the empty one, repeated variants and both orders of a pair).
AffiliationVecs == UNION { [1 .. n -> Affiliation] : n \in 0 .. MaxAffLen }

Init ==
    /\ kind \in ListKinds \cup { "create", "record" }
    /\ heap \in IF kind \in ListKinds THEN { << HashMap_new >> }
                ELSE IF kind = "create"
                THEN { << RepoOptionsBuilder_new(n) >> : n \in RepoNames }
                ELSE { << >> }
    /\ opts = << >>
    /\ ncalls = 0
    /\ last = Call("new", << >>, << >>, None)
    /\ ret = << >>
    /\ reqs = << >>
    /\ clientRet = None

---------------------------------------------------------------------------
\* Builder setters: self.params.insert(key, value.to_string()); self

Set(op, key, value, arg) ==
    /\ ncalls < MaxCalls
    /\ heap' = [heap EXCEPT ![1] = HashMap_insert(heap[1], key, value)]
    /\ last' = Call(op, key, arg, HashMap_get(heap[1], key))
    /\ ncalls' = ncalls + 1
    /\ ret' = << >>
    /\ reqs' = << >>
    /\ clientRet' = None
    /\ UNCHANGED << kind, opts >>

RepoListOptionsBuilder_visibility ==
    /\ kind = "repo"
    /\ \E vis \in Visibility :
         Set("visibility", K_visibility, Visibility_to_string(vis), << vis >>)

\* The variants present, once each and in declaration order, joined with ",".
AffiliationValue_canonical(affiliations) ==
    LET has(a) == \E i \in DOMAIN affiliations : affiliations[i] = a
        pick(a) == IF has(a) THEN << Affiliation_to_string(a) >> ELSE << >>
    IN  Join(pick("Owner") \o pick("Collaborator") \o pick("OrganizationMember"),
             << "," >>)

\* affiliations.into_iter().map(|a| a.to_string()).collect::<Vec<String>>().join(",")
AffiliationValue(affiliations) ==
    Join([i \in DOMAIN affiliations |-> Affiliation_to_string(affiliations[i])],
         << "," >>)

RepoListOptionsBuilder_affiliation ==
    /\ kind = "repo"
    /\ \E affiliations \in AffiliationVecs :
         Set("affiliation", K_affiliation, AffiliationValue(affiliations),
             affiliations)

\* repo_type taking a Type, as UserRepoListOptionsBuilder::repo_type does.
RepoListOptionsBuilder_repo_type_Type ==
    /\ kind = "repo"
    /\ \E tpe \in Type :
         Set("repo_type", K_type, Type_to_string(tpe), << tpe >>)

RepoListOptionsBuilder_repo_type ==
    /\ kind = "repo"
    /\ \E tpe \in Sort :
         Set("repo_type", K_type, Sort_to_string(tpe), << tpe >>)

RepoListOptionsBuilder_sort ==
    /\ kind = "repo"
    /\ \E sort \in Sort :
         Set("sort", K_sort, Sort_to_string(sort), << sort >>)

RepoListOptionsBuilder_direction ==
    /\ kind = "repo"
    /\ \E direction \in SortDirection :
         Set("direction", K_direction, SortDirection_to_string(direction),
             << direction >>)

RepoListOptionsBuilder_asc ==
    /\ kind = "repo"
    /\ Set("asc", K_direction, SortDirection_to_string("Asc"), << "Asc" >>)

RepoListOptionsBuilder_desc ==
    /\ kind = "repo"
    /\ Set("desc", K_direction, SortDirection_to_string("Desc"), << "Desc" >>)

UserRepoListOptionsBuilder_repo_type ==
    /\ kind = "user"
    /\ \E tpe \in Type :
         Set("repo_type", K_type, Type_to_string(tpe), << tpe >>)

UserRepoListOptionsBuilder_sort ==
    /\ kind = "user"
    /\ \E sort \in Type :
         Set("sort", K_sort, Type_to_string(sort), << sort >>)

UserRepoListOptionsBuilder_direction ==
    /\ kind = "user"
    /\ \E direction \in SortDirection :
         Set("direction", K_direction, SortDirection_to_string(direction),
             << direction >>)

UserRepoListOptionsBuilder_asc ==
    /\ kind = "user"
    /\ Set("asc", K_direction, SortDirection_to_string("Asc"), << "Asc" >>)

UserRepoListOptionsBuilder_desc ==
    /\ kind = "user"
    /\ Set("desc", K_direction, SortDirection_to_string("Desc"), << "Desc" >>)

OrganizationRepoListOptionsBuilder_repo_type ==
    /\ kind = "org"
    /\ \E tpe \in OrgRepoType :
         Set("repo_type", K_type, OrgRepoType_to_string(tpe), << tpe >>)

---------------------------------------------------------------------------
\* RepoOptionsBuilder setters: self.field = Some(value); self

SetField(op, builder, arg) ==
    /\ kind = "create"
    /\ ncalls < MaxCalls
    /\ heap' = [heap EXCEPT ![1] = builder]
    /\ last' = Call(op, << >>, arg, None)
    /\ ncalls' = ncalls + 1
    /\ ret' = << >>
    /\ reqs' = << >>
    /\ clientRet' = None
    /\ UNCHANGED << kind, opts >>

RepoOptionsBuilder_description ==
    \E description \in Texts :
        SetField("description", [heap[1] EXCEPT !.description = Some(description)],
                 << description >>)

RepoOptionsBuilder_homepage ==
    \E homepage \in Texts :
        SetField("homepage", [heap[1] EXCEPT !.homepage = Some(homepage)],
                 << homepage >>)

RepoOptionsBuilder_private ==
    \E private \in BOOLEAN :
        SetField("private", [heap[1] EXCEPT !.private = Some(private)],
                 << private >>)

RepoOptionsBuilder_has_issues ==
    \E has_issues \in BOOLEAN :
        SetField("has_issues", [heap[1] EXCEPT !.has_issues = Some(has_issues)],
                 << has_issues >>)

RepoOptionsBuilder_has_wiki ==
    \E has_wiki \in BOOLEAN :
        SetField("has_wiki", [heap[1] EXCEPT !.has_wiki = Some(has_wiki)],
                 << has_wiki >>)

RepoOptionsBuilder_has_downloads ==
    \E has_downloads \in BOOLEAN :
        SetField("has_downloads",
                 [heap[1] EXCEPT !.has_downloads = Some(has_downloads)],
                 << has_downloads >>)

RepoOptionsBuilder_team_id ==
    \E team_id \in TeamIds :
        SetField("team_id", [heap[1] EXCEPT !.team_id = Some(team_id)],
                 << team_id >>)

RepoOptionsBuilder_auto_init ==
    \E auto_init \in BOOLEAN :
        SetField("auto_init", [heap[1] EXCEPT !.auto_init = Some(auto_init)],
                 << auto_init >>)

RepoOptionsBuilder_gitignore_template ==
    \E gitignore_template \in Texts :
        SetField("gitignore_template",
                 [heap[1] EXCEPT !.gitignore_template = Some(gitignore_template)],
                 << gitignore_template >>)

RepoOptionsBuilder_license_template ==
    \E license_template \in Texts :
        SetField("license_template",
                 [heap[1] EXCEPT !.license_template = Some(license_template)],
                 << license_template >>)

---------------------------------------------------------------------------
\* build(): a new Options value that owns a copy of the builder's value.

\* build() that hands out the builder's own map instead of a copy.
ShareParams(h, ref) == << h, ref >>

\* self.params.clone(): a fresh map with the same entries; the result is the
\* heap with the copy added, and the copy's index.
CloneParams(h, ref) == << Append(h, h[ref]), Len(h) + 1 >>

\* RepoOptions::new(self.name.as_str(), self.description.clone(), ...)
CloneFields(h, ref) ==
    << Append(h, RepoOptions_new(h[ref].name, h[ref].description, h[ref].homepage,
                                 h[ref].private, h[ref].has_issues, h[ref].has_wiki,
                                 h[ref].has_downloads, h[ref].team_id,
                                 h[ref].auto_init, h[ref].gitignore_template,
                                 h[ref].license_template)),
       Len(h) + 1 >>

Built(copied) ==
    /\ Len(opts) < MaxOptions
    /\ heap' = copied[1]
    /\ opts' = Append(opts, copied[2])
    /\ last' = Call("build", << >>, << >>, None)
    /\ ret' = << copied[2] >>
    /\ reqs' = << >>
    /\ clientRet' = None
    /\ UNCHANGED << kind, ncalls >>

RepoListOptionsBuilder_build ==
    kind = "repo" /\ Built(CloneParams(heap, 1))

UserRepoListOptionsBuilder_build ==
    kind = "user" /\ Built(CloneParams(heap, 1))

OrganizationRepoListOptionsBuilder_build ==
    kind = "org" /\ Built(CloneParams(heap, 1))

RepoOptionsBuilder_build ==
    kind = "create" /\ Built(CloneFields(heap, 1))

---------------------------------------------------------------------------
\* serialize() on a built Options value.

Options_serialize ==
    /\ kind \in ListKinds
    /\ \E i \in DOMAIN opts :
         \E order \in HashMap_iter(heap[opts[i]]) :
            /\ ret' = Serialize(heap[opts[i]], order)
            /\ last' = Call("serialize", << >>, << i >>, None)
    /\ reqs' = << >>
    /\ clientRet' = None
    /\ UNCHANGED << kind, heap, opts, ncalls >>

---------------------------------------------------------------------------
\* Accessors.

Request(method, uri, body) == [ method |-> method, uri |-> uri, body |-> body ]

\* An accessor that sends the request again when the client gave an error.
Delegate_retry(request) ==
    \E r1, r2 \in ClientResults :
        IF r1[1] = "Err"
        THEN /\ reqs' = << request, request >>
             /\ clientRet' = Some(r2)
             /\ ret' = r2
        ELSE /\ reqs' = << request >>
             /\ clientRet' = Some(r1)
             /\ ret' = r1

\* The accessor's tail call, self.github.get(uri) / self.github.post(uri, body):
\* one request, and the client's result returned as it is.
Delegate(request) ==
    \E r \in ClientResults :
        /\ reqs' = << request >>
        /\ clientRet' = Some(r)
        /\ ret' = r

\* The query pushed unconditionally (serialize().unwrap_or_default()).
ListUri_always(path, query) ==
    Join(<< path, IF query # None THEN query[1] ELSE << >> >>, << "?" >>)

\* let mut uri = vec![self.path("")];
\* if let Some(query) = options.serialize() { uri.push(query); }
\* uri.join("?")
ListUri(path, query) ==
    Join(IF query # None THEN << path, query[1] >> ELSE << path >>, << "?" >>)

List(path, arg) ==
    /\ \E i \in DOMAIN opts :
         \E order \in HashMap_iter(heap[opts[i]]) :
            /\ Delegate(Request("GET",
                                   ListUri(path, Serialize(heap[opts[i]], order)),
                                   << >>))
            /\ last' = Call("list", << >>, << i >> \o arg, None)
    /\ UNCHANGED << kind, heap, opts, ncalls >>

Repositories_list ==
    kind = "repo" /\ List(Repositories_path(<< >>), << >>)

UserRepositories_list ==
    /\ kind = "user"
    /\ \E owner \in Owners : List(UserRepositories_path(owner, << >>), << owner >>)

OrganizationRepositories_list ==
    /\ kind = "org"
    /\ \E org \in Owners : List(OrganizationRepositories_path(org, << >>), << org >>)

\* let data = try!(serde_json::to_string(&repo));
\* self.github.post::<Repo>(&self.path(""), data.as_bytes())
Repositories_create ==
    /\ kind = "create"
    /\ \E i \in DOMAIN opts :
         /\ Delegate(Request("POST", Repositories_path(<< >>),
                                RepoOptions_to_json(heap[opts[i]])))
         /\ last' = Call("create", << >>, << i >>, None)
    /\ UNCHANGED << kind, heap, opts, ncalls >>

\* let url = Url::parse(&self.languages_url).unwrap();
\* let uri: String = url.path().into();
\* github.get(&uri)
Repo_languages ==
    /\ kind = "record"
    /\ \E languages_url \in LanguagesUrls :
         LET parsed == Url_parse_path(languages_url) IN
         /\ last' = Call("languages", << >>, << languages_url >>, None)
         /\ IF parsed = None
            THEN \* unwrap() on Err: the thread panics before any request
                 /\ ret' = << "panic" >>
                 /\ reqs' = << >>
                 /\ clientRet' = None
            ELSE Delegate(Request("GET", parsed[1], << >>))
    /\ UNCHANGED << kind, heap, opts, ncalls >>

---------------------------------------------------------------------------

Next ==
    \/ RepoListOptionsBuilder_visibility
    \/ RepoListOptionsBuilder_affiliation
    \/ RepoListOptionsBuilder_repo_type
    \/ RepoListOptionsBuilder_sort
    \/ RepoListOptionsBuilder_direction
    \/ RepoListOptionsBuilder_asc
    \/ RepoListOptionsBuilder_desc
    \/ RepoListOptionsBuilder_build
    \/ UserRepoListOptionsBuilder_repo_type
    \/ UserRepoListOptionsBuilder_sort
    \/ UserRepoListOptionsBuilder_direction
    \/ UserRepoListOptionsBuilder_asc
    \/ UserRepoListOptionsBuilder_desc
    \/ UserRepoListOptionsBuilder_build
    \/ OrganizationRepoListOptionsBuilder_repo_type
    \/ OrganizationRepoListOptionsBuilder_build
    \/ RepoOptionsBuilder_description
    \/ RepoOptionsBuilder_homepage
    \/ RepoOptionsBuilder_private
    \/ RepoOptionsBuilder_has_issues
    \/ RepoOptionsBuilder_has_wiki
    \/ RepoOptionsBuilder_has_downloads
    \/ RepoOptionsBuilder_team_id
    \/ RepoOptionsBuilder_auto_init
    \/ RepoOptionsBuilder_gitignore_template
    \/ RepoOptionsBuilder_license_template
    \/ RepoOptionsBuilder_build
    \/ Options_serialize
    \/ Repositories_list
    \/ UserRepositories_list
    \/ OrganizationRepositories_list
    \/ Repositories_create
    \/ Repo_languages

Spec == Init /\ [][Next]_vars

---------------------------------------------------------------------------
\* Reading a query string back (form_urlencoded::parse), and names used by
\* the properties below.

RECURSIVE SplitOn(_, _)
SplitOn(s, c) ==
    LET i == FindFrom(s, 1, { c })
    IN  IF i > Len(s) THEN << s >>
        ELSE << SubSeq(s, 1, i - 1) >> \o SplitOn(SubSeq(s, i + 1, Len(s)), c)

RECURSIVE FormDecode(_)
FormDecode(s) ==
    IF s = << >> THEN << >>
    ELSE IF s[1] = "+" THEN << " " >> \o FormDecode(Tail(s))
    ELSE IF /\ s[1] = "%"
            /\ Len(s) >= 3
            /\ \E c \in DOMAIN HexOf : HexOf[c] = << s[2], s[3] >>
         THEN << CHOOSE c \in DOMAIN HexOf : HexOf[c] = << s[2], s[3] >> >>
                \o FormDecode(SubSeq(s, 4, Len(s)))
    ELSE << s[1] >> \o FormDecode(Tail(s))

NonEmptyString(s) == s # << >>

DecodePair(piece) ==
    LET i == FindFrom(piece, 1, { "=" })
    IN  << FormDecode(SubSeq(piece, 1, i - 1)),
           FormDecode(SubSeq(piece, i + 1, Len(piece))) >>

DecodePairs(s) ==
    LET pieces == SelectSeq(SplitOn(s, "&"), NonEmptyString)
    IN  [j \in DOMAIN pieces |-> DecodePair(pieces[j])]

ListSetterOps ==
    { "visibility", "affiliation", "repo_type", "sort", "direction", "asc", "desc" }

FieldSetterOps ==
    { "description", "homepage", "private", "has_issues", "has_wiki",
      "has_downloads", "team_id", "auto_init", "gitignore_template",
      "license_template" }

AccessorOps == { "list", "create", "languages" }

\* The enum a setter of builder kind k accepts, and its Display.
EnumOf(k, op) ==
    CASE op = "visibility"                  -> Visibility
      [] op = "repo_type" /\ k = "repo"     -> Sort
      [] op = "repo_type" /\ k = "user"     -> Type
      [] op = "repo_type" /\ k = "org"      -> OrgRepoType
      [] op = "sort" /\ k = "repo"          -> Sort
      [] op = "sort" /\ k = "user"          -> Type
      [] op \in { "direction", "asc", "desc" } -> SortDirection

ToStringOf(k, op, v) ==
    CASE op = "visibility"                  -> Visibility_to_string(v)
      [] op = "repo_type" /\ k = "repo"     -> Sort_to_string(v)
      [] op = "repo_type" /\ k = "user"     -> Type_to_string(v)
      [] op = "repo_type" /\ k = "org"      -> OrgRepoType_to_string(v)
      [] op = "sort" /\ k = "repo"          -> Sort_to_string(v)
      [] op = "sort" /\ k = "user"          -> Type_to_string(v)
      [] op \in { "direction", "asc", "desc" } -> SortDirection_to_string(v)

\* The string the most recent setter call was given to store.
ArgString ==
    IF last.op = "affiliation" THEN AffiliationValue(last.arg)
    ELSE ToStringOf(kind, last.op, last.arg[1])

AfterListSetter == kind \in ListKinds /\ last.op \in ListSetterOps

\* The Options value the most recent serialize / list / create call was given.
GivenOptions == heap[opts[last.arg[1]]]

\* The Options value build() would produce from the builder now.
BuiltNow == LET c == CloneParams(heap, 1) IN c[1][c[2]]

SerializeOutputs(m) == { Serialize(m, order) : order \in HashMap_iter(m) }

RecognizedKeys(k) ==
    CASE k = "repo" -> { K_visibility, K_affiliation, K_type, K_sort, K_direction }
      [] k = "user" -> { K_type, K_sort, K_direction }
      [] k = "org"  -> { K_type }

BasePath(k, arg) ==
    CASE k = "repo" -> <<"/", "u", "s", "e", "r", "/", "r", "e", "p", "o", "s">>
      [] k = "user" -> <<"/", "u", "s", "e", "r", "s", "/">> \o arg[2] \o <<"/", "r", "e", "p", "o", "s">>
      [] k = "org"  -> <<"/", "o", "r", "g", "s", "/">> \o arg[2] \o <<"/", "r", "e", "p", "o", "s">>

---------------------------------------------------------------------------
\* Properties.

\* C1: serialize() returns None exactly when the Options' parameter mapping
\* is empty, and never returns Some of the empty string, for the Options of
\* all three list builders (an affiliation of the empty list included).
C1_SerializeNoneIffEmpty ==
    (kind \in ListKinds /\ last.op = "serialize") =>
        /\ (ret = None) <=> (GivenOptions = { })
        /\ ret # Some(<< >>)

\* serialize() on Options built after only affiliation(vec![]).
C1_Witness ==
    /\ kind = "repo"
    /\ last.op = "serialize"
    /\ GivenOptions = { << K_affiliation, << >> >> }
    /\ ret = Some(<<"a", "f", "f", "i", "l", "i", "a", "t", "i", "o", "n", "=">>)

\* C2: for a non-empty mapping, decoding the string serialize() returned as
\* form-urlencoded pairs gives exactly the mapping's (key, value) pairs, as
\* many pairs as the mapping holds, whatever order the keys were emitted in.
C2_SerializeRoundTrip ==
    (kind \in ListKinds /\ last.op = "serialize" /\ GivenOptions # { }) =>
        /\ ret # None
        /\ LET d == DecodePairs(ret[1])
           IN  /\ Len(d) = Cardinality(GivenOptions)
               /\ { d[j] : j \in DOMAIN d } = GivenOptions

\* serialize() on two parameters, one of them a two-variant affiliation
\* (whose "," is percent-encoded).
C2_Witness ==
    /\ kind = "repo"
    /\ last.op = "serialize"
    /\ Cardinality(GivenOptions) = 2
    /\ \E p \in GivenOptions : p[1] = K_affiliation /\ Len(SplitOn(p[2], ",")) = 2
    /\ \E i \in DOMAIN ret[1] : ret[1][i] = "%"

\* C3: build() gives an independent snapshot. No step changes the value (or
\* the possible serialize() outputs) of an Options value built earlier; a
\* build() step leaves the builder's value unchanged; and a build() that
\* directly follows a build() gives an Options value equal to the one before.
C3_BuildSnapshot ==
    [][ /\ \A i \in DOMAIN opts :
            /\ heap'[opts'[i]] = heap[opts[i]]
            /\ kind \in ListKinds =>
                 SerializeOutputs(heap'[opts'[i]]) = SerializeOutputs(heap[opts[i]])
        /\ Len(opts') > Len(opts) => heap'[1] = heap[1]
        /\ (Len(opts') > Len(opts) /\ last.op = "build") =>
              heap'[opts'[Len(opts')]] = heap[opts[Len(opts)]]
      ]_vars

\* build(), then a setter, then build(): the first Options value differs from
\* the builder, the second equals it.
C3_Witness ==
    /\ Len(opts) = 2
    /\ last.op = "build"
    /\ heap[opts[1]] # heap[1]
    /\ heap[opts[2]] = heap[1]

\* C4: after a setter call the builder, and the Options build() makes of it,
\* hold under that setter's key the value just given and nothing else: an
\* earlier value is overwritten. asc(), desc() and direction() all write the
\* key "direction". A RepoOptionsBuilder setter leaves Some(value) in its field.
C4_SetterOverwrites ==
    /\ AfterListSetter =>
         /\ { p \in heap[1] : p[1] = last.key } = { << last.key, ArgString >> }
         /\ { p \in BuiltNow : p[1] = last.key } = { << last.key, ArgString >> }
         /\ last.op \in { "asc", "desc", "direction" } => last.key = K_direction
    /\ (kind = "create" /\ last.op \in FieldSetterOps) =>
         /\ heap[1][last.op] = Some(last.arg[1])
         /\ LET c == CloneFields(heap, 1) IN c[1][c[2]][last.op] = Some(last.arg[1])

\* A setter call that replaced a different value under its key.
C4_Witness ==
    /\ AfterListSetter
    /\ last.replaced # None
    /\ last.replaced[1] # ArgString

\* C5: after affiliation(v) the value under "affiliation", in the builder and
\* decoded from what serialize() gives for the Options built of it, is the
\* variants' strings joined with "," in the order given: splitting it at ","
\* gives back the strings one by one (duplicates kept), [Owner, Collaborator]
\* gives exactly "owner,collaborator", and no other vector gives this value.
C5_AffiliationJoinedInOrder ==
    (kind = "repo" /\ last.op = "affiliation") =>
        LET v == HashMap_get(heap[1], K_affiliation) IN
        /\ v # None
        /\ IF last.arg = << >> THEN v[1] = << >>
           ELSE SplitOn(v[1], ",") =
                  [i \in DOMAIN last.arg |-> Affiliation_to_string(last.arg[i])]
        /\ last.arg = << "Owner", "Collaborator" >> => v[1] = <<"o", "w", "n", "e", "r", ",", "c", "o", "l", "l", "a", "b", "o", "r", "a", "t", "o", "r">>
        /\ \A other \in AffiliationVecs :
              other # last.arg => AffiliationValue(other) # v[1]
        /\ \A out \in SerializeOutputs(BuiltNow) :
              \E j \in DOMAIN DecodePairs(out[1]) :
                 DecodePairs(out[1])[j] = << K_affiliation, v[1] >>

\* affiliation(vec![Collaborator, Owner]): not in declaration order.
C5_Witness ==
    /\ kind = "repo"
    /\ last.op = "affiliation"
    /\ last.arg = << "Collaborator", "Owner" >>
    /\ HashMap_get(heap[1], K_affiliation) = Some(<<"c", "o", "l", "l", "a", "b", "o", "r", "a", "t", "o", "r", ",", "o", "w", "n", "e", "r">>)

Injective(E, f(_)) ==
    /\ \A a, b \in E : a # b => f(a) # f(b)
    /\ \A a \in E : Len(f(a)) > 0

\* C6: each of Visibility, Sort, Affiliation, Type and OrgRepoType maps every
\* variant to a string, and distinct variants of one enum to distinct strings;
\* so the string a setter stored is the string of no other variant.
C6_EnumStringsInjective ==
    /\ Injective(Visibility, Visibility_to_string)
    /\ Injective(Sort, Sort_to_string)
    /\ Injective(Affiliation, Affiliation_to_string)
    /\ Injective(Type, Type_to_string)
    /\ Injective(OrgRepoType, OrgRepoType_to_string)
    /\ (AfterListSetter /\ last.op \in { "visibility", "repo_type", "sort" }) =>
         \A other \in EnumOf(kind, last.op) \ { last.arg[1] } :
            HashMap_get(heap[1], last.key) # Some(ToStringOf(kind, last.op, other))

\* visibility(Visibility::Private) stored "private".
C6_Witness ==
    /\ kind = "repo"
    /\ last.op = "visibility"
    /\ last.arg = << "Private" >>
    /\ HashMap_get(heap[1], K_visibility) = Some(<<"p", "r", "i", "v", "a", "t", "e">>)

\* C7: the builder's mapping and every built Options' mapping have keys only
\* among the builder's recognized parameter names, and one value per key.
C7_KeysClosedSingleValued ==
    kind \in ListKinds =>
        \A r \in DOMAIN heap :
            /\ HashMap_keys(heap[r]) \subseteq RecognizedKeys(kind)
            /\ \A p, q \in heap[r] : p[1] = q[1] => p = q

\* A key written again after an Options value holding it was built.
C7_Witness ==
    /\ kind \in ListKinds
    /\ last.op \in ListSetterOps
    /\ last.replaced # None
    /\ Len(opts) >= 1
    /\ Cardinality(heap[opts[1]]) = 1

\* C8: list() issues a GET whose URI is the accessor's base path alone when
\* serialize() gives None for the Options, and the base path, "?" and the
\* serialized query string when it gives one.
C8_ListUri ==
    (kind \in ListKinds /\ last.op = "list") =>
        /\ Len(reqs) = 1
        /\ reqs[1].method = "GET"
        /\ \E q \in SerializeOutputs(GivenOptions) :
              \/ q = None /\ reqs[1].uri = BasePath(kind, last.arg)
              \/ q # None /\ reqs[1].uri = BasePath(kind, last.arg) \o << "?" >> \o q[1]

\* UserRepositories::list with Options that have no parameter.
C8_Witness ==
    /\ kind = "user"
    /\ last.op = "list"
    /\ GivenOptions = { }
    /\ reqs[1].uri = <<"/", "u", "s", "e", "r", "s", "/", "o", "c", "t", "o", "c", "a", "t", "/", "r", "e", "p", "o", "s">>

\* C9 (as claimed): whenever an accessor or record method ends in a failure,
\* the failure is the error result the shared client returned to it.
C9_FailuresAreTheClients ==
    (last.op \in AccessorOps /\ ret # << "Ok" >>) =>
        /\ clientRet # None
        /\ ret = clientRet[1]
        /\ ret[1] = "Err"

\* C10: a create, list or languages call issues at most one request through
\* the shared client, and exactly one whenever it returns the client's result.
C10_AtMostOneRequest ==
    last.op \in AccessorOps =>
        /\ Len(reqs) <= 1
        /\ ret[1] \in { "Ok", "Err" } => Len(reqs) = 1

\* list() whose single request failed in transport.
C10_Witness ==
    /\ last.op = "list"
    /\ ret = << "Err", "transport" >>
    /\ Len(reqs) = 1

---------------------------------------------------------------------------
\* Reading a JSON object back: its members, as <<name, value text>>. The
\* model's names and texts hold no ",", ":" or quote.

FieldChars(f) ==
    CASE f = "description"        -> <<"d", "e", "s", "c", "r", "i", "p", "t", "i", "o", "n">>
      [] f = "homepage"           -> <<"h", "o", "m", "e", "p", "a", "g", "e">>
      [] f = "private"            -> <<"p", "r", "i", "v", "a", "t", "e">>
      [] f = "has_issues"         -> <<"h", "a", "s", "_", "i", "s", "s", "u", "e", "s">>
      [] f = "has_wiki"           -> <<"h", "a", "s", "_", "w", "i", "k", "i">>
      [] f = "has_downloads"      -> <<"h", "a", "s", "_", "d", "o", "w", "n", "l", "o", "a", "d", "s">>
      [] f = "team_id"            -> <<"t", "e", "a", "m", "_", "i", "d">>
      [] f = "auto_init"          -> <<"a", "u", "t", "o", "_", "i", "n", "i", "t">>
      [] f = "gitignore_template" -> <<"g", "i", "t", "i", "g", "n", "o", "r", "e", "_", "t", "e", "m", "p", "l", "a", "t", "e">>
      [] f = "license_template"   -> <<"l", "i", "c", "e", "n", "s", "e", "_", "t", "e", "m", "p", "l", "a", "t", "e">>

JsonMember(text) ==
    LET i == FindFrom(text, 1, { ":" })
    IN  << SubSeq(text, 2, i - 2), SubSeq(text, i + 1, Len(text)) >>

JsonMembers(body) ==
    LET inner == SplitOn(SubSeq(body, 2, Len(body) - 1), ",")
    IN  [j \in DOMAIN inner |-> JsonMember(inner[j])]

FieldsSet(ro) == { f \in FieldSetterOps : ro[f] # None }

\* C11: a RepoOptionsBuilder field is set exactly from the first call of its
\* setter on; build() carries the set fields over; and the body create()
\* posts is a JSON object with the member name and one member for each set
\* field, no member for an unset one, and no member whose value is null.
C11_BodyOmitsUnsetFields ==
    /\ [][ kind = "create" =>
             /\ \A f \in FieldSetterOps :
                  (heap'[1][f] # None) <=>
                     (heap[1][f] # None \/ (ncalls' > ncalls /\ last'.op = f))
             /\ Len(opts') > Len(opts) =>
                  FieldsSet(heap'[opts'[Len(opts')]]) = FieldsSet(heap[1])
         ]_vars
    /\ [] ( (kind = "create" /\ last.op = "create") =>
              LET ms == JsonMembers(reqs[1].body)
                  names == { ms[j][1] : j \in DOMAIN ms }
              IN  /\ Len(reqs) = 1
                  /\ Head(reqs[1].body) = "{"
                  /\ reqs[1].body[Len(reqs[1].body)] = "}"
                  /\ Len(ms) = 1 + Cardinality(FieldsSet(GivenOptions))
                  /\ names = { <<"n", "a", "m", "e">> } \cup
                               { FieldChars(f) : f \in FieldsSet(GivenOptions) }
                  /\ \A j \in DOMAIN ms : ms[j][2] # <<"n", "u", "l", "l">> /\ ms[j][2] # << >> )

\* create() with only private(true) and team_id(2) called before build().
C11_Witness ==
    /\ kind = "create"
    /\ last.op = "create"
    /\ FieldsSet(GivenOptions) = { "private", "team_id" }
    /\ reqs[1].body = <<"{", "\"", "n", "a", "m", "e", "\"", ":", "\"", "h", "u", "b", "c", "a", "p", "s", "\"", ",", "\"", "p", "r", "i", "v", "a", "t", "e", "\"", ":", "t", "r", "u", "e", ",", "\"", "t", "e", "a", "m", "_", "i", "d", "\"", ":", "2", "}">>

---------------------------------------------------------------------------
\* The string tokens of each enum, as the wire format names them.

VisibilityTokens    == { <<"a", "l", "l">>, <<"p", "u", "b", "l", "i", "c">>, <<"p", "r", "i", "v", "a", "t", "e">> }
SortTokens          == { <<"c", "r", "e", "a", "t", "e", "d">>, <<"u", "p", "d", "a", "t", "e", "d">>, <<"p", "u", "s", "h", "e", "d">>, <<"f", "u", "l", "l", "_", "n", "a", "m", "e">> }
AffiliationTokens   == { <<"o", "w", "n", "e", "r">>, <<"c", "o", "l", "l", "a", "b", "o", "r", "a", "t", "o", "r">>, <<"o", "r", "g", "a", "n", "i", "z", "a", "t", "i", "o", "n", "_", "m", "e", "m", "b", "e", "r">> }
TypeTokens          == { <<"a", "l", "l">>, <<"o", "w", "n", "e", "r">>, <<"p", "u", "b", "l", "i", "c">>, <<"p", "r", "i", "v", "a", "t", "e">>, <<"m", "e", "m", "b", "e", "r">> }
OrgRepoTypeTokens   == { <<"a", "l", "l">>, <<"p", "u", "b", "l", "i", "c">>, <<"p", "r", "i", "v", "a", "t", "e">>, <<"f", "o", "r", "k", "s">>, <<"s", "o", "u", "r", "c", "e", "s">>, <<"m", "e", "m", "b", "e", "r">> }
SortDirectionTokens == { <<"a", "s", "c">>, <<"d", "e", "s", "c">> }

\* The tokens of the enum that the setter writing key accepts in builder
\* kind k: repo_type of RepoListOptionsBuilder accepts a Sort, sort of
\* UserRepoListOptionsBuilder a Type.
TokensFor(k, key) ==
    CASE key = K_visibility           -> VisibilityTokens
      [] key = K_affiliation          -> AffiliationTokens
      [] key = K_direction            -> SortDirectionTokens
      [] key = K_type /\ k = "repo"   -> SortTokens
      [] key = K_sort /\ k = "repo"   -> SortTokens
      [] key = K_type /\ k = "user"   -> TypeTokens
      [] key = K_sort /\ k = "user"   -> TypeTokens
      [] key = K_type /\ k = "org"    -> OrgRepoTypeTokens

BuiltOptions == { heap[opts[i]] : i \in DOMAIN opts }

\* C12 (as claimed): in every built Options value the value under each key is
\* one token of the enum its setter accepts, the key "affiliation" included.
C12_EveryValueIsOneToken ==
    kind \in ListKinds =>
        \A m \in BuiltOptions : \A p \in m : p[2] \in TokensFor(kind, p[1])

\* C12: in every built Options value the value under visibility, type, sort
\* and direction is one token of the enum its setter accepts (type of
\* RepoListOptions a Sort token, type and sort of UserRepoListOptions Type
\* tokens, type of OrganizationRepoListOptions an OrgRepoType token); the
\* value under affiliation, whose setter accepts a vector, is empty or
\* Affiliation tokens separated by ",".
C12_ValuesAreEnumTokens ==
    kind \in ListKinds =>
        \A m \in BuiltOptions : \A p \in m :
            IF p[1] = K_affiliation
            THEN \/ p[2] = << >>
                 \/ \A j \in DOMAIN SplitOn(p[2], ",") :
                       SplitOn(p[2], ",")[j] \in AffiliationTokens
            ELSE p[2] \in TokensFor(kind, p[1])

\* RepoListOptions built after repo_type(Sort::FullName) and
\* affiliation(vec![Owner, Collaborator]).
C12_Witness ==
    /\ kind = "repo"
    /\ \E m \in BuiltOptions :
         m = { << K_type, <<"f", "u", "l", "l", "_", "n", "a", "m", "e">> >>, << K_affiliation, <<"o", "w", "n", "e", "r", ",", "c", "o", "l", "l", "a", "b", "o", "r", "a", "t", "o", "r">> >> }

=============================================================================
